---- MODULE Spec2Model ----
(***************************************************************************)
(* Business Performance Tracker (src/app.py): the SQLite schema of         *)
(* clients and services, the domain operations that write it, and the      *)
(* revenue aggregation that reads it.                                      *)
(*                                                                         *)
(* Text values are sequences of one-character strings, so that str.strip   *)
(* is computed and not assumed.  monthly_cost (REAL) is modelled by        *)
(* integers: the amounts used are exactly representable and their sums     *)
(* are exact.  A call is modelled in two steps: the caller issues it       *)
(* (Invoke puts the function name and its arguments in `call`), then the   *)
(* function body runs to completion as one atomic step.                    *)
(***************************************************************************)
EXTENDS Integers, Sequences, FiniteSets

VARIABLES
    clients,    \* table clients:  id -> [name, status, notes, created_at]
    services,   \* table services: id -> [client_id, service_name, monthly_cost, is_active, created_at]
    seq,        \* sqlite_sequence: the largest id AUTOINCREMENT has handed out, per table
    call,       \* the call being made, with its arguments ([op |-> "idle"] between calls)
    last        \* the call that has just returned or raised: its name, its exception ("none" if it
                \* returned) and the rows its statements had changed by then

vars == <<clients, services, seq, call, last>>

(* ------------------------------ bounds --------------------------------- *)
MaxRows == 4        \* rows inserted in a run, over both tables
MaxBatch == 2       \* rows of the DataFrame given to update_services_bulk

(* ------------------------------ values --------------------------------- *)
Statuses == {"Active", "Inactive", "Prospect"}

WS == {" "}

RECURSIVE lstrip(_)
lstrip(s) == IF s # <<>> /\ Head(s) \in WS THEN lstrip(Tail(s)) ELSE s

RECURSIVE rstrip(_)
rstrip(s) == IF s # <<>> /\ s[Len(s)] \in WS THEN rstrip(SubSeq(s, 1, Len(s) - 1)) ELSE s

strip(s) == rstrip(lstrip(s))

Idle == [op |-> "idle"]

EmptyTable == [i \in {} |-> i]

Put(table, id, row) == [i \in DOMAIN table \cup {id} |-> IF i = id THEN row ELSE table[i]]

Remove(table, ids) == [i \in DOMAIN table \ ids |-> table[i]]

(* ------------------------------ schema --------------------------------- *)
\* Faulty variant: get_conn() without PRAGMA foreign_keys = ON.
foreign_keys_off == FALSE

\* PRAGMA foreign_keys = ON, set on every connection by get_conn().
foreign_keys == TRUE

ClientsCheck(row) == row.status \in Statuses

\* Faulty variant: the services table without CHECK(monthly_cost >= 0).
ServicesCheckNoCost(row) == row.is_active \in {0, 1}

ServicesCheck(row) == row.monthly_cost >= 0 /\ row.is_active \in {0, 1}

ServicesForeignKey(db, row) == foreign_keys => row.client_id \in DOMAIN db.clients

\* Faulty variant: the foreign key without ON DELETE CASCADE, never checked.
NoCascade(db, client_id) == db.services

ServicesOnDeleteCascade(db, client_id) ==
    IF foreign_keys
    THEN Remove(db.services, {s \in DOMAIN db.services : db.services[s].client_id = client_id})
    ELSE db.services

(* ----------------------------- statements ------------------------------ *)
\* A statement maps the database a connection sees to [err, db, changes]:
\* the exception cursor.execute raises ("none" if it returns), the database
\* the connection sees afterwards and the rows the statement changed.  A
\* statement that raises changes nothing.
DB == [clients |-> clients, services |-> services, seq |-> seq]

Done(db, changes) == [err |-> "none", db |-> db, changes |-> changes]

Raise(db) == [err |-> "IntegrityError", db |-> db, changes |-> 0]

InsertClient(db, name, status, notes, now) ==
    LET id == db.seq.clients + 1
        row == [name |-> name, status |-> status, notes |-> notes, created_at |-> now]
    IN  IF ClientsCheck(row)
        THEN Done([db EXCEPT !.clients = Put(@, id, row), !.seq.clients = id], 1)
        ELSE Raise(db)

\* Faulty variant: an update that inserts the row when the id names none.
UpsertClient(db, id, name, status, notes) ==
    LET row == [name |-> name, status |-> status, notes |-> notes, created_at |-> call.now]
    IN  IF ~ClientsCheck(row)
        THEN Raise(db)
        ELSE IF id \in DOMAIN db.clients
             THEN Done([db EXCEPT !.clients = Put(@, id, [row EXCEPT !.created_at =
                                                            db.clients[id].created_at])], 1)
             ELSE Done([db EXCEPT !.clients = Put(@, id, row)], 1)

\* Faulty variant: an update that writes the row anew (INSERT OR REPLACE), with
\* the time of the call as created_at.
ReplaceClient(db, id, name, status, notes) ==
    IF id \notin DOMAIN db.clients
    THEN Done(db, 0)
    ELSE LET row == [name |-> name, status |-> status, notes |-> notes,
                     created_at |-> call.now]
         IN  IF ClientsCheck(row)
             THEN Done([db EXCEPT !.clients = Put(@, id, row)], 1)
             ELSE Raise(db)

UpdateClient(db, id, name, status, notes) ==
    IF id \notin DOMAIN db.clients
    THEN Done(db, 0)
    ELSE LET row == [db.clients[id] EXCEPT !.name = name, !.status = status, !.notes = notes]
         IN  IF ClientsCheck(row)
             THEN Done([db EXCEPT !.clients = Put(@, id, row)], 1)
             ELSE Raise(db)

DeleteClient(db, id) ==
    LET cascaded == ServicesOnDeleteCascade(db, id)
    IN  IF id \notin DOMAIN db.clients
        THEN Done(db, 0)
        ELSE Done([db EXCEPT !.clients = Remove(@, {id}), !.services = cascaded],
                  1 + Cardinality(DOMAIN db.services \ DOMAIN cascaded))

InsertService(db, client_id, service_name, monthly_cost, is_active, now) ==
    LET id == db.seq.services + 1
        row == [client_id |-> client_id, service_name |-> service_name,
                monthly_cost |-> monthly_cost, is_active |-> is_active, created_at |-> now]
    IN  IF ServicesCheck(row) /\ ServicesForeignKey(db, row)
        THEN Done([db EXCEPT !.services = Put(@, id, row), !.seq.services = id], 1)
        ELSE Raise(db)

UpdateService(db, id, service_name, monthly_cost, is_active) ==
    IF id \notin DOMAIN db.services
    THEN Done(db, 0)
    ELSE LET row == [db.services[id] EXCEPT !.service_name = service_name,
                                            !.monthly_cost = monthly_cost,
                                            !.is_active = is_active]
         IN  IF ServicesCheck(row)
             THEN Done([db EXCEPT !.services = Put(@, id, row)], 1)
             ELSE Raise(db)

DeleteService(db, id) ==
    Done([db EXCEPT !.services = Remove(@, {id})], IF id \in DOMAIN db.services THEN 1 ELSE 0)

\* A connection is [err, db, n]: the exception raised on it ("none" so
\* far), the database it sees, and the rows its statements have changed.
get_conn(db) == [err |-> "none", db |-> db, n |-> 0]

\* cur.execute(...) on connection r, u being what the statement does to r.db.
execute(r, u) == [err |-> u.err, db |-> u.db, n |-> r.n + u.changes]

\* Faulty variant: a connection in autocommit mode: what its statements did before
\* one raised stays.
autocommit(r) ==
    /\ clients' = r.db.clients
    /\ services' = r.db.services
    /\ seq' = r.db.seq
    /\ last' = [op |-> call.op, err |-> r.err, n |-> r.n]
    /\ call' = Idle

\* The end of a connection r.  conn.commit() makes what its statements did
\* the database.  When a statement raises, conn.commit() is not reached:
\* the exception leaves the function, the connection is dropped with its
\* transaction open, and SQLite rolls the transaction back.
commit(r) ==
    /\ clients' = IF r.err = "none" THEN r.db.clients ELSE clients
    /\ services' = IF r.err = "none" THEN r.db.services ELSE services
    /\ seq' = IF r.err = "none" THEN r.db.seq ELSE seq
    /\ last' = [op |-> call.op, err |-> r.err, n |-> r.n]
    /\ call' = Idle

exec_sql(u) == commit(execute(get_conn(DB), u))

(* ---------------------------- domain logic ----------------------------- *)
\* call.form holds the arguments that fill a row: name, status and notes
\* of upsert_client; service_name, monthly_cost and is_active of add_service
\* and of a DataFrame row.
upsert_client ==
    /\ call.op = "upsert_client"
    /\ exec_sql(IF call.client_id = <<>>
                THEN InsertClient(DB, strip(call.form.name), call.form.status,
                                  strip(call.form.notes), call.now)
                ELSE UpdateClient(DB, call.client_id[1], strip(call.form.name),
                                  call.form.status, strip(call.form.notes)))

delete_client ==
    /\ call.op = "delete_client"
    /\ exec_sql(DeleteClient(DB, call.client_id))

add_service ==
    /\ call.op = "add_service"
    /\ exec_sql(InsertService(DB, call.client_id, strip(call.form.service_name),
                              call.form.monthly_cost,
                              IF call.form.is_active THEN 1 ELSE 0, call.now))

\* The loop over edited.iterrows(): the rows are executed in order on one
\* connection; the first row that raises ends the loop.
RECURSIVE iterrows(_, _)
iterrows(r, edited) ==
    IF edited = <<>> \/ r.err # "none"
    THEN r
    ELSE LET row == Head(edited)
         IN  iterrows(execute(r, UpdateService(r.db, row.id, strip(row.form.service_name),
                                               row.form.monthly_cost,
                                               IF row.form.is_active THEN 1 ELSE 0)),
                      Tail(edited))

update_services_bulk ==
    /\ call.op = "update_services_bulk"
    /\ commit(iterrows(get_conn(DB), call.edited))

delete_service ==
    /\ call.op = "delete_service"
    /\ exec_sql(DeleteService(DB, call.service_id))

(* ------------------------------ queries -------------------------------- *)
\* Faulty variant: INNER JOIN: a client without services has no joined row.
InnerJoin(cl, sv) ==
    {[c |-> p[1], s |-> <<p[2]>>] : p \in
        {q \in (DOMAIN cl) \X (DOMAIN sv) : sv[q[2]].client_id = q[1]}}

\* FROM clients c LEFT JOIN services s ON s.client_id = c.id: one joined row
\* per matching service, and one with s NULL (<<>>) for a client without.
LeftJoin(cl, sv) ==
    {[c |-> p[1], s |-> <<p[2]>>] : p \in
        {q \in (DOMAIN cl) \X (DOMAIN sv) : sv[q[2]].client_id = q[1]}}
    \cup {[c |-> c, s |-> <<>>] : c \in
        {d \in DOMAIN cl : \A s \in DOMAIN sv : sv[s].client_id # d}}

\* Faulty variant: the sum counts the inactive services too.
CaseAlways(sv, j) == IF j.s # <<>> THEN sv[j.s[1]].monthly_cost ELSE 0

\* CASE WHEN s.is_active = 1 THEN s.monthly_cost ELSE 0 END
CaseActive(sv, j) ==
    IF j.s # <<>> /\ sv[j.s[1]].is_active = 1 THEN sv[j.s[1]].monthly_cost ELSE 0

RECURSIVE SUM(_, _)
SUM(sv, group) ==
    IF group = {}
    THEN 0
    ELSE LET j == CHOOSE x \in group : TRUE
         IN  CaseActive(sv, j) + SUM(sv, group \ {j})

\* GROUP BY c.id, c.name, c.status with the SELECT list.
GroupBy(cl, sv) ==
    LET joined == LeftJoin(cl, sv)
    IN  {[client_id |-> c, name |-> cl[c].name, status |-> cl[c].status,
          monthly_revenue |-> SUM(sv, {j \in joined : j.c = c})] :
            c \in {j.c : j \in joined}}

\* SQLite compares TEXT byte by byte (the BINARY collation).
Byte(ch) ==
    CASE ch = " " -> 32
      [] ch = "a" -> 97
      [] ch = "b" -> 98
      [] ch = "n" -> 110

RECURSIVE TextLess(_, _)
TextLess(x, y) ==
    IF x = <<>> \/ y = <<>>
    THEN x = <<>> /\ y # <<>>
    ELSE IF Head(x) = Head(y)
         THEN TextLess(Tail(x), Tail(y))
         ELSE Byte(Head(x)) < Byte(Head(y))

StatusRank(st) ==
    CASE st = "Active" -> 1
      [] st = "Inactive" -> 2
      [] st = "Prospect" -> 3

\* ORDER BY c.status, c.name; rows equal in both come in id order, the
\* order of the groups.
Before(x, y) ==
    \/ StatusRank(x.status) < StatusRank(y.status)
    \/ /\ x.status = y.status
       /\ \/ TextLess(x.name, y.name)
          \/ x.name = y.name /\ x.client_id < y.client_id

RECURSIVE OrderBy(_)
OrderBy(rows) ==
    IF rows = {}
    THEN <<>>
    ELSE LET first == CHOOSE x \in rows : \A y \in rows \ {x} : Before(x, y)
         IN  <<first>> \o OrderBy(rows \ {first})

\* The DataFrame of client_monthly_revenue_breakdown() on tables cl and sv.
breakdown(cl, sv) == OrderBy(GroupBy(cl, sv))

client_monthly_revenue_breakdown == breakdown(clients, services)

RECURSIVE SumSeq(_)
SumSeq(xs) == IF xs = <<>> THEN 0 ELSE Head(xs) + SumSeq(Tail(xs))

\* df.loc[df["status"] == st, "monthly_revenue"].sum()
LocSum(df, st) ==
    LET RECURSIVE Pick(_)
        Pick(i) ==
            IF i > Len(df)
            THEN <<>>
            ELSE (IF df[i].status = st THEN <<df[i].monthly_revenue>> ELSE <<>>) \o Pick(i + 1)
    IN  SumSeq(Pick(1))

\* Faulty variant: the total counts the inactive clients too.
TotalOfAll(active_mrr, prospect_mrr, inactive_mrr) == active_mrr + prospect_mrr + inactive_mrr

\* total_potential = active_mrr + prospect_mrr
TotalPotential(active_mrr, prospect_mrr, inactive_mrr) == active_mrr + prospect_mrr

totals(df) ==
    LET active_mrr == LocSum(df, "Active")
        prospect_mrr == LocSum(df, "Prospect")
        inactive_mrr == LocSum(df, "Inactive")
    IN  [active_mrr |-> active_mrr, prospect_mrr |-> prospect_mrr,
         total_potential |-> TotalPotential(active_mrr, prospect_mrr, inactive_mrr),
         inactive_mrr |-> inactive_mrr]

totals_for_dashboard == totals(client_monthly_revenue_breakdown)

(* ------------------------------ callers -------------------------------- *)
\* The values a run's callers pass.  Three alphabets keep the runs finite:
\* Money varies status, cost and the active flag, Bulk the rows of a
\* DataFrame, Text the text fields and the clock.  `client` is the set of
\* client forms, `service` the set of service forms, `times` the readings
\* of datetime.utcnow(), `frames` the DataFrame lengths.
Money ==
    [client |-> [name : {<<" ", "a", " ">>}, status : Statuses \cup {"Lead"}, notes : {<<>>}],
     service |-> [service_name : {<<" ", "a", " ">>}, monthly_cost : {-1, 0, 2},
                  is_active : BOOLEAN],
     times |-> {0},
     frames |-> {0, 1}]

Bulk ==
    [client |-> [name : {<<" ", "a", " ">>}, status : {"Active"}, notes : {<<>>}],
     service |-> [service_name : {<<" ", "a", " ">>}, monthly_cost : {-1, 2},
                  is_active : BOOLEAN],
     times |-> {0},
     frames |-> 0..MaxBatch]

Text ==
    [client |-> {[name |-> <<" ">>, status |-> "Active", notes |-> <<>>],
                 [name |-> <<" ", "a", " ", "b", " ">>, status |-> "Prospect",
                  notes |-> <<"n", " ">>]},
     service |-> [service_name : {<<" ">>, <<" ", "a", " ">>}, monthly_cost : {2},
                  is_active : {TRUE}],
     times |-> {0, 1},
     frames |-> {0, 1}]

\* The ids a caller names: those the table has handed out, and one it has not.
ClientIds == 1..(seq.clients + 1)

ServiceIds == 1..(seq.services + 1)

\* The DataFrames: one row per service id, in id order.
Frames(U) ==
    {edited \in UNION {[1..n -> [id : ServiceIds, form : U.service]] : n \in U.frames} :
        \A i \in 1..Len(edited) - 1 : edited[i].id < edited[i + 1].id}

Requests(U) ==
    [op : {"upsert_client"}, client_id : {<<>>} \cup {<<c>> : c \in ClientIds},
     form : U.client, now : U.times]
    \cup [op : {"delete_client"}, client_id : ClientIds]
    \cup [op : {"add_service"}, client_id : ClientIds, form : U.service, now : U.times]
    \cup [op : {"update_services_bulk"}, edited : Frames(U)]
    \cup [op : {"delete_service"}, service_id : ServiceIds]

\* The model stops inserting rows at MaxRows.
WithinBounds(c) ==
    (c.op = "add_service" \/ (c.op = "upsert_client" /\ c.client_id = <<>>))
        => seq.clients + seq.services < MaxRows

NoCall == [op |-> "none", err |-> "none", n |-> 0]

Invoke(U) ==
    /\ call = Idle
    /\ \E c \in Requests(U) : WithinBounds(c) /\ call' = c
    /\ last' = NoCall
    /\ UNCHANGED <<clients, services, seq>>

(* --------------------------- specifications ---------------------------- *)
Init ==
    /\ clients = EmptyTable
    /\ services = EmptyTable
    /\ seq = [clients |-> 0, services |-> 0]
    /\ call = Idle
    /\ last = NoCall

Run ==
    \/ upsert_client
    \/ delete_client
    \/ add_service
    \/ update_services_bulk
    \/ delete_service

Next == Invoke(Money) \/ Run

NextBulk == Invoke(Bulk) \/ Run

NextText == Invoke(Text) \/ Run

Spec == Init /\ [][Next]_vars

SpecBulk == Init /\ [][NextBulk]_vars

SpecText == Init /\ [][NextText]_vars

(* ------------------------------- claims -------------------------------- *)
\* The sum of monthly_cost over the services of client c in sv that are
\* active, counted service id by service id.
RECURSIVE ActiveCostUpTo(_, _, _)
ActiveCostUpTo(sv, c, n) ==
    IF n = 0
    THEN 0
    ELSE ActiveCostUpTo(sv, c, n - 1)
         + (IF n \in DOMAIN sv /\ sv[n].client_id = c /\ sv[n].is_active = 1
            THEN sv[n].monthly_cost
            ELSE 0)

ActiveCost(sv, c) == ActiveCostUpTo(sv, c, MaxRows)

\* The sum of ActiveCost over the clients of status st, client id by client id.
RECURSIVE StatusCostUpTo(_, _, _, _)
StatusCostUpTo(cl, sv, st, n) ==
    IF n = 0
    THEN 0
    ELSE StatusCostUpTo(cl, sv, st, n - 1)
         + (IF n \in DOMAIN cl /\ cl[n].status = st THEN ActiveCost(sv, n) ELSE 0)

StatusCost(st) == StatusCostUpTo(clients, services, st, MaxRows)

RowsOf(df, c) == {i \in 1..Len(df) : df[i].client_id = c}

ServicesOf(sv, c) == {s \in DOMAIN sv : sv[s].client_id = c}

\* C1: in every reachable state client_monthly_revenue_breakdown() has
\* exactly one row for each existing client, also one without services, no
\* row for anything else, and the row's monthly_revenue is the sum of
\* monthly_cost over that client's active services (0 when it has none).
C1_BreakdownPerClient ==
    LET df == client_monthly_revenue_breakdown
    IN  /\ \A c \in DOMAIN clients : Cardinality(RowsOf(df, c)) = 1
        /\ \A i \in 1..Len(df) :
            /\ df[i].client_id \in DOMAIN clients
            /\ df[i].monthly_revenue = ActiveCost(services, df[i].client_id)

\* A client without services beside a client with an active and an
\* inactive service, both of positive cost.
C1_Witness ==
    LET df == client_monthly_revenue_breakdown
    IN  \E c \in DOMAIN clients, d \in DOMAIN clients :
        /\ ServicesOf(services, c) = {}
        /\ \E i \in RowsOf(df, c) : df[i].monthly_revenue = 0
        /\ \E s \in ServicesOf(services, d), t \in ServicesOf(services, d) :
            /\ services[s].is_active = 1 /\ services[s].monthly_cost > 0
            /\ services[t].is_active = 0 /\ services[t].monthly_cost > 0
        /\ \E i \in RowsOf(df, d) : df[i].monthly_revenue > 0

\* C2: in every reachable state totals_for_dashboard() sums the breakdown by
\* the client's status, whatever the services' flags: active_mrr,
\* prospect_mrr and inactive_mrr are the revenue of the Active, Prospect and
\* Inactive clients, and total_potential is active_mrr + prospect_mrr, so
\* the revenue of an Inactive client is in inactive_mrr and not in the total.
C2_TotalsByClientStatus ==
    LET t == totals_for_dashboard
    IN  /\ t.active_mrr = StatusCost("Active")
        /\ t.prospect_mrr = StatusCost("Prospect")
        /\ t.inactive_mrr = StatusCost("Inactive")
        /\ t.total_potential = StatusCost("Active") + StatusCost("Prospect")

\* An Inactive client with an active service of positive cost beside an
\* Active client with an inactive service of positive cost.
C2_Witness ==
    /\ totals_for_dashboard.inactive_mrr > 0
    /\ totals_for_dashboard.total_potential = 0
    /\ \E c \in DOMAIN clients, d \in DOMAIN clients :
        /\ clients[c].status = "Inactive"
        /\ \E s \in ServicesOf(services, c) :
            services[s].is_active = 1 /\ services[s].monthly_cost > 0
        /\ clients[d].status = "Active"
        /\ \E s \in ServicesOf(services, d) :
            services[s].is_active = 0 /\ services[s].monthly_cost > 0

(* Steps.  A call in `call` is executed by the next step, which sets `last`. *)
Ran(op) == call.op = op /\ last'.op = op

SameRows == clients' = clients /\ services' = services /\ seq' = seq

\* s without its leading and trailing whitespace, by position.
Trimmed(s) ==
    LET inked == {i \in 1..Len(s) : s[i] \notin WS}
    IN  IF inked = {}
        THEN <<>>
        ELSE SubSeq(s, CHOOSE i \in inked : \A j \in inked : i <= j,
                       CHOOSE i \in inked : \A j \in inked : i >= j)

\* C3: delete_client(id) of an existing client returns, having removed
\* that client and the services whose client_id is id, and having left
\* every other client and every service of another client as it was.
C3_DeleteClientCascades ==
    [][(Ran("delete_client") /\ call.client_id \in DOMAIN clients) =>
        /\ last'.err = "none"
        /\ DOMAIN clients' = DOMAIN clients \ {call.client_id}
        /\ \A c \in DOMAIN clients' : clients'[c] = clients[c]
        /\ DOMAIN services' = {s \in DOMAIN services : services[s].client_id # call.client_id}
        /\ \A s \in DOMAIN services' : services'[s] = services[s]]_vars

\* delete_client has removed a client with its services, and a client and
\* a service remain.
C3_Witness ==
    /\ last.op = "delete_client" /\ last.err = "none" /\ last.n >= 2
    /\ DOMAIN clients # {}
    /\ DOMAIN services # {}

\* C4: the client_id of every service names an existing client, after any
\* calls; add_service for a client_id that names no client raises and
\* writes no row.
C4_NoOrphanService ==
    /\ [](\A s \in DOMAIN services : services[s].client_id \in DOMAIN clients)
    /\ [][(Ran("add_service") /\ call.client_id \notin DOMAIN clients) =>
            (last'.err # "none" /\ SameRows)]_vars

\* add_service has raised IntegrityError when every client had been
\* deleted.
C4_Witness ==
    /\ last.op = "add_service" /\ last.err = "IntegrityError"
    /\ DOMAIN clients = {}
    /\ seq.clients > 0

NegativeRow(edited) ==
    \E i \in 1..Len(edited) :
        edited[i].id \in DOMAIN services /\ edited[i].form.monthly_cost < 0

\* C6: every stored monthly_cost is >= 0 and every stored status is one of
\* Active, Inactive, Prospect, after any calls; add_service or a DataFrame
\* row with a negative cost, and upsert_client with another status, raise
\* and persist nothing when they reach a row.
C6_ChecksEnforced ==
    /\ [](/\ \A s \in DOMAIN services : services[s].monthly_cost >= 0
          /\ \A c \in DOMAIN clients : clients[c].status \in Statuses)
    /\ [][(\/ Ran("add_service") /\ call.form.monthly_cost < 0
           \/ /\ Ran("upsert_client")
              /\ call.form.status \notin Statuses
              /\ call.client_id # <<>> => call.client_id[1] \in DOMAIN clients
           \/ Ran("update_services_bulk") /\ NegativeRow(call.edited))
            => (last'.err # "none" /\ SameRows)]_vars

\* update_services_bulk has raised IntegrityError: a row with a negative
\* cost reached a service.
C6_Witness ==
    /\ last.op = "update_services_bulk" /\ last.err = "IntegrityError"
    /\ DOMAIN services # {}

\* The service row a DataFrame row makes of service row old.
Edited(old, row) ==
    [old EXCEPT !.service_name = Trimmed(row.form.service_name),
                !.monthly_cost = row.form.monthly_cost,
                !.is_active = IF row.form.is_active THEN 1 ELSE 0]

\* The rows before the first row with a negative cost for an existing service.
FirstNegative(edited) ==
    CHOOSE i \in 1..Len(edited) :
        /\ edited[i].id \in DOMAIN services /\ edited[i].form.monthly_cost < 0
        /\ \A j \in 1..(i - 1) :
            ~(edited[j].id \in DOMAIN services /\ edited[j].form.monthly_cost < 0)

AbsentId ==
    \/ Ran("upsert_client") /\ call.client_id # <<>> /\ call.client_id[1] \notin DOMAIN clients
    \/ Ran("delete_client") /\ call.client_id \notin DOMAIN clients
    \/ Ran("delete_service") /\ call.service_id \notin DOMAIN services
    \/ /\ Ran("update_services_bulk")
       /\ call.edited # <<>>
       /\ \A i \in 1..Len(call.edited) : call.edited[i].id \notin DOMAIN services

\* C8: upsert_client with an id, delete_client, delete_service and a
\* DataFrame row, when the id names no row, return without an exception
\* and leave every row as it was (upsert_client inserts nothing).
C8_AbsentIdIsNoOp == [][AbsentId => (last'.err = "none" /\ SameRows)]_vars

\* upsert_client with an id has returned having changed no row, beside
\* existing clients and services.
C8_Witness ==
    /\ last.op = "upsert_client" /\ last.err = "none" /\ last.n = 0
    /\ DOMAIN clients # {}
    /\ DOMAIN services # {}

BlankName ==
    \/ Ran("upsert_client") /\ Trimmed(call.form.name) = <<>>
    \/ Ran("add_service") /\ Trimmed(call.form.service_name) = <<>>

\* C5: upsert_client (with or without an id) and add_service, given a name
\* that is empty once trimmed, raise and leave the rows as they were.
C5_BlankNameRejected == [][BlankName => (last'.err # "none" /\ SameRows)]_vars

\* C9: upsert_client returns when the status is one of the three.  With
\* the id of an existing client, when it returns, it has replaced that
\* client's name and notes by the trimmed arguments and its status by the
\* argument, and nothing else: its created_at, the set of clients, the
\* other clients and all services are as they were.  Without an id, when
\* it returns, it has added exactly one client, under an id no client
\* holds, and changed nothing else.
C9_UpsertFrame ==
    [][Ran("upsert_client") =>
        /\ (call.form.status \in Statuses) => (last'.err = "none")
        /\ (last'.err = "none") =>
            /\ services' = services
            /\ (call.client_id # <<>> /\ call.client_id[1] \in DOMAIN clients) =>
                LET id == call.client_id[1]
                IN  /\ DOMAIN clients' = DOMAIN clients
                    /\ clients'[id] = [name |-> Trimmed(call.form.name),
                                        status |-> call.form.status,
                                        notes |-> Trimmed(call.form.notes),
                                        created_at |-> clients[id].created_at]
                    /\ \A c \in DOMAIN clients \ {id} : clients'[c] = clients[c]
            /\ (call.client_id = <<>>) =>
                /\ Cardinality(DOMAIN clients' \ DOMAIN clients) = 1
                /\ DOMAIN clients \subseteq DOMAIN clients'
                /\ \A c \in DOMAIN clients : clients'[c] = clients[c]
                /\ \A c \in DOMAIN clients' \ DOMAIN clients :
                    clients'[c] = [name |-> Trimmed(call.form.name),
                                   status |-> call.form.status,
                                   notes |-> Trimmed(call.form.notes),
                                   created_at |-> call.now]]_vars

\* upsert_client has returned having changed one row; a client holds the
\* trimmed name and notes with the creation time 0, beside another client
\* and a service.
C9_Witness ==
    /\ last.op = "upsert_client" /\ last.err = "none" /\ last.n = 1
    /\ Cardinality(DOMAIN clients) >= 2
    /\ DOMAIN services # {}
    /\ \E c \in DOMAIN clients :
        /\ clients[c].name = <<"a", " ", "b">>
        /\ clients[c].notes = <<"n">>
        /\ clients[c].created_at = 0

Revenue(df, c) == df[CHOOSE i \in RowsOf(df, c) : TRUE].monthly_revenue

\* C10: add_service(c, name, x, True) for an existing client c and x >= 0
\* returns, having raised c's monthly_revenue in the breakdown by exactly
\* x and left every other client's as it was; update_services_bulk with a
\* DataFrame of one row that only clears is_active of an active service of
\* cost x returns, having lowered the owner's monthly_revenue by exactly x
\* and left every other client's as it was: after the two, c's
\* monthly_revenue is what it was before the first.
C10_AddThenDeactivate ==
    [][LET df == breakdown(clients, services)
           after == breakdown(clients', services')
       IN  /\ (/\ Ran("add_service")
               /\ call.client_id \in DOMAIN clients
               /\ call.form.is_active
               /\ call.form.monthly_cost >= 0) =>
                /\ last'.err = "none"
                /\ Revenue(after, call.client_id)
                    = Revenue(df, call.client_id) + call.form.monthly_cost
                /\ \A d \in DOMAIN clients \ {call.client_id} :
                    Revenue(after, d) = Revenue(df, d)
                /\ \E s \in DOMAIN services' \ DOMAIN services :
                    /\ services'[s].client_id = call.client_id
                    /\ services'[s].monthly_cost = call.form.monthly_cost
                    /\ services'[s].is_active = 1
           /\ (/\ Ran("update_services_bulk")
               /\ Len(call.edited) = 1
               /\ call.edited[1].id \in DOMAIN services
               /\ services[call.edited[1].id].is_active = 1
               /\ ~call.edited[1].form.is_active
               /\ call.edited[1].form.monthly_cost
                    = services[call.edited[1].id].monthly_cost) =>
                LET owner == services[call.edited[1].id].client_id
                IN  /\ last'.err = "none"
                    /\ Revenue(after, owner)
                        = Revenue(df, owner) - services[call.edited[1].id].monthly_cost
                    /\ \A d \in DOMAIN clients \ {owner} :
                        Revenue(after, d) = Revenue(df, d)]_vars

\* update_services_bulk has returned having changed one row, and a
\* service of positive cost is inactive beside an active one of another
\* client.
C10_Witness ==
    /\ last.op = "update_services_bulk" /\ last.err = "none" /\ last.n = 1
    /\ \E s \in DOMAIN services, t \in DOMAIN services :
        /\ services[s].is_active = 0 /\ services[s].monthly_cost > 0
        /\ services[t].is_active = 1 /\ services[t].monthly_cost > 0
        /\ services[t].client_id # services[s].client_id

====
